---- MODULE Spec2Model ----
(***************************************************************************)
(* Model of the "locality" extension (src/script.py): a settings mapping   *)
(* persisted as JSON beside the script, seven UI change handlers that      *)
(* write one key and save, and the per-turn hook chat_input_modifier that  *)
(* appends a bracketed annotation to the model-facing text.                *)
(*                                                                         *)
(* Python values are tagged records [t, v] (v is always a string), Python  *)
(* dicts are sequences of <<key, value>> pairs in insertion order, and the *)
(* JSON text of the settings file is a sequence of <<key, token>> members. *)
(***************************************************************************)
EXTENDS Integers, Sequences, FiniteSets, TLC

VARIABLES
    pc,          \* "import" until the module-level setup() call has run; then "idle"
                 \* between calls and "returned" when a call has just come back
    params,      \* the global settings dict
    fileExists,  \* os.path.exists(SETTINGS_FILE)
    fileText,    \* the members of the JSON object in SETTINGS_FILE (<<>> when absent)
    initialFile, \* what the environment held at SETTINGS_FILE before the import
    last         \* the call that has just come back: its arguments and what it returned

vars == <<pc, params, fileExists, fileText, initialFile, last>>

(***************************************************************************)
(* Bounds of the model.                                                    *)
(***************************************************************************)
MaxExtraKeys == 1    \* keys beyond the settings keys that the initial file may hold
MaxTempSteps == 1    \* temperatures reported by the forecast provider: 0, 100, ... degrees C

(***************************************************************************)
(* Python values.                                                          *)
(***************************************************************************)
PyTrue == [t |-> "bool", v |-> "True"]
PyFalse == [t |-> "bool", v |-> "False"]
PyNone == [t |-> "none", v |-> "None"]
PyStr(s) == [t |-> "str", v |-> s]
PyFloat(s) == [t |-> "float", v |-> s]
PyList(xs) == [t |-> "list", v |-> xs]

\* bool(x): the truth value Python's `if x` and `x and y` use
Truthy(x) ==
    CASE x.t = "bool" -> x.v = "True"
      [] x.t = "none" -> FALSE
      [] x.t = "str" -> x.v # ""
      [] x.t = "list" -> x.v # <<>>
      [] OTHER -> TRUE

\* str(x) as an f-string renders it
Str(x) == x.v

(***************************************************************************)
(* dict: a sequence of <<key, value>> pairs with distinct keys.            *)
(***************************************************************************)
Keys(d) == {d[i][1] : i \in DOMAIN d}

Index(d, k) == CHOOSE i \in DOMAIN d : d[i][1] = k

Get(d, k) == d[Index(d, k)][2]

SetItem(d, k, x) ==
    IF k \in Keys(d) THEN [d EXCEPT ![Index(d, k)] = <<k, x>>]
    ELSE Append(d, <<k, x>>)

RECURSIVE DictUpdateFrom(_, _)
DictUpdateFrom(d, other) ==
    IF other = <<>> THEN d
    ELSE DictUpdateFrom(SetItem(d, Head(other)[1], Head(other)[2]), Tail(other))

\* faulty variant: the loaded mapping replaces the settings instead of being merged in
DictReplace(d, other) == other

\* d.update(other)
DictUpdate(d, other) == DictUpdateFrom(d, other)

default_params ==
    << <<"add_time", PyTrue>>,
       <<"add_date", PyTrue>>,
       <<"add_timezone", PyTrue>>,
       <<"add_location", PyTrue>>,
       <<"add_weather", PyTrue>>,
       <<"temp_unit", PyStr("Celsius")>>,
       <<"timezone", PyStr("UTC")>>,
       <<"locale", PyStr("en_US")>> >>

DefaultKeys == Keys(default_params)

(***************************************************************************)
(* json.dump / json.load on a flat object.                                 *)
(***************************************************************************)
JTrue == [j |-> "literal", s |-> "true"]
JFalse == [j |-> "literal", s |-> "false"]
JNull == [j |-> "literal", s |-> "null"]
JString(s) == [j |-> "string", s |-> s]

\* faulty variant: every value is written as a JSON string
JsonEncodeAsString(x) == JString(x.v)

JsonEncode(x) ==
    CASE x.t = "bool" -> IF x.v = "True" THEN JTrue ELSE JFalse
      [] x.t = "none" -> JNull
      [] OTHER -> JString(x.v)

JsonDecode(tok) ==
    IF tok.j = "string" THEN PyStr(tok.s)
    ELSE CASE tok.s = "true" -> PyTrue
           [] tok.s = "false" -> PyFalse
           [] OTHER -> PyNone

\* faulty variant: the last member is not written
JsonDumpTruncated(d) == [i \in 1..(Len(d) - 1) |-> <<d[i][1], JsonEncode(d[i][2])>>]

\* json.dump(d, f): one member per item, in the dict's order
JsonDump(d) == [i \in DOMAIN d |-> <<d[i][1], JsonEncode(d[i][2])>>]

\* json.load(f): a later member with the same key replaces an earlier one
JsonLoad(members) ==
    DictUpdateFrom(<<>>, [i \in DOMAIN members |-> <<members[i][1], JsonDecode(members[i][2])>>])

(***************************************************************************)
(* The settings file.                                                      *)
(***************************************************************************)
\* faulty variant: save_settings writes the defaults, not the current settings
SaveDefaults(p) == JsonDump(default_params)

\* the text save_settings leaves in SETTINGS_FILE
SaveSettingsText(p) == JsonDump(p)

\* params after load_settings: merged with the file when it exists
LoadSettingsParams(p, exists, text) ==
    IF exists THEN DictUpdate(p, JsonLoad(text)) ELSE p

\* the file after load_settings: written from params when it did not exist
LoadSettingsText(p, exists, text) ==
    IF exists THEN text ELSE SaveSettingsText(p)

(***************************************************************************)
(* Location and weather lookups.  The providers are remote services: what  *)
(* they answer is an input of the hook.                                    *)
(***************************************************************************)
weather_code_map ==
    << <<0, "Clear">>, <<1, "Mostly Clear">>, <<2, "Partly Cloudy">>, <<3, "Overcast">>,
       <<45, "Fog">>, <<48, "Freezing Fog">>,
       <<51, "Light Drizzle">>, <<53, "Moderate Drizzle">>, <<55, "Dense Drizzle">>,
       <<56, "Light Freezing Drizzle">>, <<57, "Dense Freezing Drizzle">>,
       <<61, "Light Rain">>, <<63, "Moderate Rain">>, <<65, "Heavy Rain">>,
       <<66, "Light Freezing Rain">>, <<67, "Heavy Freezing Rain">>,
       <<71, "Light Snow">>, <<73, "Moderate Snow">>, <<75, "Heavy Snow">>,
       <<77, "Snow Grains">>,
       <<80, "Light Rain Showers">>, <<81, "Moderate Rain Showers">>,
       <<82, "Violent Rain Showers">>,
       <<85, "Slight Snow Showers">>, <<86, "Heavy Snow Showers">>,
       <<95, "Thunderstorm: Slight or Moderate">>,
       <<96, "Thunderstorm With Light Hail">>, <<99, "Thunderstorm With Heavy Hail">> >>

\* weather_code_map.get(code, "Unknown weather condition")
WeatherDesc(code) ==
    IF code \in Keys(weather_code_map) THEN Get(weather_code_map, code)
    ELSE "Unknown weather condition"

\* f"{x:.1f}" of a number given in tenths
Format1f(tenths) ==
    LET a == IF tenths < 0 THEN -tenths ELSE tenths
    IN (IF tenths < 0 THEN "-" ELSE "") \o ToString(a \div 10) \o "." \o ToString(a % 10)

\* what geocoder.ip('me') does: raises, or answers an object with these attributes
GeocoderOutcomes ==
    { [raises |-> TRUE, city |-> PyNone, country |-> PyNone, latlng |-> PyNone],
      [raises |-> FALSE, city |-> PyStr("Paris"), country |-> PyStr("FR"),
       latlng |-> PyList(<<PyFloat("48.85"), PyFloat("2.35")>>)],
      [raises |-> FALSE, city |-> PyStr("Paris"), country |-> PyStr("FR"),
       latlng |-> PyList(<<PyNone, PyNone>>)],
      [raises |-> FALSE, city |-> PyNone, country |-> PyNone, latlng |-> PyList(<<>>)],
      [raises |-> FALSE, city |-> PyNone, country |-> PyNone, latlng |-> PyNone] }

\* faulty variant: the exception handler hands back what the provider object held
get_location_unguarded(g) == [city |-> g.city, country |-> g.country, latlng |-> g.latlng]

get_location(g) ==
    IF g.raises
    THEN [city |-> PyStr("Location unavailable"), country |-> PyStr("Unknown"), latlng |-> PyNone]
    ELSE [city |-> g.city, country |-> g.country, latlng |-> g.latlng]

Temperatures == {100 * i : i \in 0..MaxTempSteps}

\* what the forecast request does: fails somewhere inside the try block, or
\* answers current_weather.weathercode and current_weather.temperature (degrees C)
ForecastOutcomes ==
    { [fails |-> TRUE, code |-> 0, temp |-> 0] }
    \cup { [fails |-> FALSE, code |-> c, temp |-> t] : c \in {0, 999}, t \in Temperatures }

\* get_weather: the string it returns and the number of HTTP requests it made
get_weather(lat, lon, w, p) ==
    IF lat = PyNone \/ lon = PyNone
    THEN [text |-> "Weather unavailable", http |-> 0]
    ELSE IF w.fails
    THEN [text |-> "Weather unavailable", http |-> 1]
    ELSE LET temperature ==
                 IF Get(p, "temp_unit") = PyStr("Fahrenheit")
                 THEN Format1f(w.temp * 18 + 320) \o "°F"
                 ELSE Format1f(w.temp * 10) \o "°C"
         IN [text |-> WeatherDesc(w.code) \o ", " \o temperature, http |-> 1]

(***************************************************************************)
(* The per-turn hook.                                                      *)
(***************************************************************************)
\* the names pytz.timezone accepts (two of pytz.all_timezones) and the
\* identifiers Locale.parse accepts (two of the dropdown's choices)
all_timezones == {"UTC", "Europe/Paris"}
LocaleChoices == {"en_US", "fr_FR"}

\* pytz.timezone(x) raises UnknownTimeZoneError for anything else
TimezoneKnown(x) == x.t = "str" /\ x.v \in all_timezones

\* Locale.parse(x) raises for an identifier it does not know
LocaleKnown(x) == x.t = "str" /\ x.v \in LocaleChoices

\* the readings of the system clock (UTC) at which the hook is called
Clocks == { [year |-> 2026, month |-> 11, day |-> 6, hour |-> 13, minute |-> 5, second |-> 9] }

\* datetime.datetime.now(pytz.timezone(tz)): the wall time in that zone
Now(clock, tz) ==
    [clock EXCEPT !.hour = clock.hour + (IF tz = "Europe/Paris" THEN 1 ELSE 0)]

TwoDigits(n) == IF n < 10 THEN "0" \o ToString(n) ELSE ToString(n)

MonthsEn == <<"Jan", "Feb", "Mar", "Apr", "May", "Jun", "Jul", "Aug", "Sep", "Oct", "Nov", "Dec">>
MonthsFr == <<"janv.", "févr.", "mars", "avr.", "mai", "juin", "juil.", "août", "sept.", "oct.",
              "nov.", "déc.">>

\* babel's format_datetime(now, locale=...) in its default (medium) format
format_datetime(now, locale) ==
    IF locale = "fr_FR"
    THEN ToString(now.day) \o " " \o MonthsFr[now.month] \o " " \o ToString(now.year) \o ", "
         \o TwoDigits(now.hour) \o ":" \o TwoDigits(now.minute) \o ":" \o TwoDigits(now.second)
    ELSE MonthsEn[now.month] \o " " \o ToString(now.day) \o ", " \o ToString(now.year) \o ", "
         \o ToString(IF now.hour % 12 = 0 THEN 12 ELSE now.hour % 12) \o ":"
         \o TwoDigits(now.minute) \o ":" \o TwoDigits(now.second)
         \o (IF now.hour < 12 THEN " AM" ELSE " PM")

Fragment(kind, text) == [kind |-> kind, text |-> text]

\* faulty variant: weather is fetched whenever there are coordinates
WeatherWantedUntoggled(p, latlng) == Truthy(latlng)

\* line 152: params["add_weather"] and latlng
WeatherWanted(p, latlng) == Truthy(Get(p, "add_weather")) /\ Truthy(latlng)

\* lines 148-154: the fragments of the location block, and the calls it makes
LocationBlock(p, g, w) ==
    IF Truthy(Get(p, "add_location"))
    THEN LET loc == get_location(g)
             here == Fragment("location", "Location: " \o Str(loc.city) \o ", " \o Str(loc.country))
         IN IF WeatherWanted(p, loc.latlng)
            THEN LET weather == get_weather(loc.latlng.v[1], loc.latlng.v[2], w, p)
                 IN [additions |-> <<here, Fragment("weather", "Weather: " \o weather.text)>>,
                     locCalls |-> 1, weatherCalls |-> 1, httpCalls |-> weather.http]
            ELSE [additions |-> <<here>>, locCalls |-> 1, weatherCalls |-> 0, httpCalls |-> 0]
    ELSE [additions |-> <<>>, locCalls |-> 0, weatherCalls |-> 0, httpCalls |-> 0]

\* lines 139-142
DateTimeBlock(p, clock) ==
    IF Truthy(Get(p, "add_time")) \/ Truthy(Get(p, "add_date"))
    THEN <<Fragment("datetime", "Current date and time: "
              \o format_datetime(Now(clock, Get(p, "timezone").v), Get(p, "locale").v))>>
    ELSE <<>>

\* lines 144-146
TimezoneBlock(p) ==
    IF Truthy(Get(p, "add_timezone"))
    THEN <<Fragment("timezone", "Timezone: " \o Str(Get(p, "timezone")))>>
    ELSE <<>>

\* faulty variant: the timezone fragment is appended before the date and time
AdditionsTimezoneFirst(p, clock, g, w) ==
    TimezoneBlock(p) \o DateTimeBlock(p, clock) \o LocationBlock(p, g, w).additions

\* the list `additions` when line 156 is reached
Additions(p, clock, g, w) ==
    DateTimeBlock(p, clock) \o TimezoneBlock(p) \o LocationBlock(p, g, w).additions

RECURSIVE JoinWith(_, _)
JoinWith(sep, strs) ==
    IF strs = <<>> THEN ""
    ELSE IF Len(strs) = 1 THEN strs[1]
    ELSE strs[1] \o sep \o JoinWith(sep, Tail(strs))

\* faulty variant: a comma between the fragments
JoinAdditionsComma(additions) == JoinWith(", ", [i \in DOMAIN additions |-> additions[i].text])

\* ' | '.join(additions)
JoinAdditions(additions) == JoinWith(" | ", [i \in DOMAIN additions |-> additions[i].text])

\* faulty variant: the brackets are appended whether or not there is a fragment
ModifiedTextAlways(text, additions) == text \o "\n[" \o JoinAdditions(additions) \o "]"

\* line 156
ModifiedText(text, additions) ==
    IF additions # <<>> THEN text \o "\n[" \o JoinAdditions(additions) \o "]" ELSE text

\* faulty variant: the annotated text is handed back in both places
ReturnBothModified(modified_text, visible_text) == <<modified_text, modified_text>>

\* line 157
ReturnValue(modified_text, visible_text) == <<modified_text, visible_text>>

(***************************************************************************)
(* The state machine.                                                      *)
(***************************************************************************)
\* the record of a call that is not the hook
Call(op, key, value) ==
    [op |-> op, key |-> key, value |-> value, status |-> "returned",
     text |-> "", visible |-> "", outText |-> "", outVisible |-> "",
     additions |-> <<>>, locCalls |-> 0, weatherCalls |-> 0, httpCalls |-> 0,
     locRaised |-> FALSE, latlng |-> PyNone]

ExtraMembers(n) == [i \in 1..n |-> <<"extra" \o ToString(i), JString("x")>>]

\* the contents SETTINGS_FILE may have when the module is imported (no change
\* handler is registered for add_timezone: only the file can turn it off)
InitialTexts ==
    { << <<"add_timezone", JFalse>> >>,
      << <<"add_time", JFalse>>, <<"temp_unit", JString("Fahrenheit")>> >>,
      << <<"timezone", JString("Mars/Olympus")>>, <<"add_location", JNull>> >>,
      << <<"locale", JString("xx_XX")>>, <<"add_weather", JString("")>> >> }
    \cup { << <<"add_date", JFalse>> >> \o ExtraMembers(n) : n \in 1..MaxExtraKeys }

InitialFiles ==
    { [exists |-> FALSE, text |-> <<>>] } \cup { [exists |-> TRUE, text |-> t] : t \in InitialTexts }

Init ==
    /\ pc = "import"
    /\ params = default_params
    /\ initialFile \in InitialFiles
    /\ fileExists = initialFile.exists
    /\ fileText = initialFile.text
    /\ last = Call("none", "", PyNone)

\* setup(), called once at the end of the module
Setup ==
    /\ pc = "import"
    /\ pc' = "returned"
    /\ IF ~fileExists
       THEN /\ params' = params
            /\ fileText' = SaveSettingsText(params)
       ELSE /\ params' = LoadSettingsParams(params, fileExists, fileText)
            /\ fileText' = LoadSettingsText(params, fileExists, fileText)
    /\ fileExists' = TRUE
    /\ last' = Call("setup", "", PyNone)
    /\ UNCHANGED initialFile

load_settings ==
    /\ pc = "idle"
    /\ params' = LoadSettingsParams(params, fileExists, fileText)
    /\ fileText' = LoadSettingsText(params, fileExists, fileText)
    /\ fileExists' = TRUE
    /\ last' = Call("load_settings", "", PyNone)
    /\ pc' = "returned"
    /\ UNCHANGED initialFile

save_settings ==
    /\ pc = "idle"
    /\ fileText' = SaveSettingsText(params)
    /\ fileExists' = TRUE
    /\ last' = Call("save_settings", "", PyNone)
    /\ pc' = "returned"
    /\ UNCHANGED <<params, initialFile>>

\* the body of a change handler of ui(): params[key] = value, then save_settings()
SetAndSave(key, value) ==
    /\ params' = SetItem(params, key, value)
    /\ fileText' = SaveSettingsText(params')
    /\ fileExists' = TRUE

CheckboxValues == {PyTrue, PyFalse}
TimezoneValues == {PyStr(z) : z \in all_timezones}
TempUnitValues == {PyStr("Celsius"), PyStr("Fahrenheit")}
LocaleValues == {PyStr(l) : l \in LocaleChoices}

update_add_time(value) ==
    /\ pc = "idle"
    /\ SetAndSave("add_time", value)
    /\ last' = Call("update_add_time", "add_time", value)
    /\ pc' = "returned"
    /\ UNCHANGED initialFile
update_add_date(value) ==
    /\ pc = "idle"
    /\ SetAndSave("add_date", value)
    /\ last' = Call("update_add_date", "add_date", value)
    /\ pc' = "returned"
    /\ UNCHANGED initialFile
update_timezone(value) ==
    /\ pc = "idle"
    /\ SetAndSave("timezone", value)
    /\ last' = Call("update_timezone", "timezone", value)
    /\ pc' = "returned"
    /\ UNCHANGED initialFile
update_add_location(value) ==
    /\ pc = "idle"
    /\ SetAndSave("add_location", value)
    /\ last' = Call("update_add_location", "add_location", value)
    /\ pc' = "returned"
    /\ UNCHANGED initialFile
update_add_weather(value) ==
    /\ pc = "idle"
    /\ SetAndSave("add_weather", value)
    /\ last' = Call("update_add_weather", "add_weather", value)
    /\ pc' = "returned"
    /\ UNCHANGED initialFile
update_temp_unit(value) ==
    /\ pc = "idle"
    /\ SetAndSave("temp_unit", value)
    /\ last' = Call("update_temp_unit", "temp_unit", value)
    /\ pc' = "returned"
    /\ UNCHANGED initialFile
update_locale(value) ==
    /\ pc = "idle"
    /\ SetAndSave("locale", value)
    /\ last' = Call("update_locale", "locale", value)
    /\ pc' = "returned"
    /\ UNCHANGED initialFile

Texts == {"", "Hello"}
VisibleTexts == {"Hi", "Hello"}

chat_input_modifier(text, visible_text, clock, g, w) ==
    /\ pc = "idle"
    /\ IF ~TimezoneKnown(Get(params, "timezone")) \/ ~LocaleKnown(Get(params, "locale"))
       THEN last' = [Call("chat_input_modifier", "", PyNone) EXCEPT
                        !.status = "raised", !.text = text, !.visible = visible_text]
       ELSE LET additions == Additions(params, clock, g, w)
                block == LocationBlock(params, g, w)
                ret == ReturnValue(ModifiedText(text, additions), visible_text)
            IN last' = [Call("chat_input_modifier", "", PyNone) EXCEPT
                           !.text = text, !.visible = visible_text,
                           !.outText = ret[1], !.outVisible = ret[2],
                           !.additions = additions,
                           !.locCalls = block.locCalls,
                           !.weatherCalls = block.weatherCalls,
                           !.httpCalls = block.httpCalls,
                           !.locRaised = block.locCalls > 0 /\ g.raises,
                           !.latlng = IF block.locCalls > 0 THEN get_location(g).latlng
                                      ELSE PyNone]
    /\ pc' = "returned"
    /\ UNCHANGED <<params, fileExists, fileText, initialFile>>

\* control is back with the host, which has taken the result
Return ==
    /\ pc = "returned"
    /\ pc' = "idle"
    /\ last' = Call("none", "", PyNone)
    /\ UNCHANGED <<params, fileExists, fileText, initialFile>>

Next ==
    \/ Setup
    \/ Return
    \/ load_settings
    \/ save_settings
    \/ \E value \in CheckboxValues : update_add_time(value)
    \/ \E value \in CheckboxValues : update_add_date(value)
    \/ \E value \in TimezoneValues : update_timezone(value)
    \/ \E value \in CheckboxValues : update_add_location(value)
    \/ \E value \in CheckboxValues : update_add_weather(value)
    \/ \E value \in TempUnitValues : update_temp_unit(value)
    \/ \E value \in LocaleValues : update_locale(value)
    \/ \E text \in Texts, visible_text \in VisibleTexts, clock \in Clocks,
          g \in GeocoderOutcomes, w \in ForecastOutcomes :
          chat_input_modifier(text, visible_text, clock, g, w)

Spec == Init /\ [][Next]_vars

(***************************************************************************)
(* Properties.                                                             *)
(***************************************************************************)
Toggles == {"add_time", "add_date", "add_timezone", "add_location", "add_weather"}

HandlerOps ==
    {"update_add_time", "update_add_date", "update_timezone", "update_add_location",
     "update_add_weather", "update_temp_unit", "update_locale"}

\* the key each change handler is registered for
OwnKey(op) ==
    CASE op = "update_add_time" -> "add_time"
      [] op = "update_add_date" -> "add_date"
      [] op = "update_timezone" -> "timezone"
      [] op = "update_add_location" -> "add_location"
      [] op = "update_add_weather" -> "add_weather"
      [] op = "update_temp_unit" -> "temp_unit"
      [] op = "update_locale" -> "locale"

HookCalled == pc = "returned" /\ last.op = "chat_input_modifier"
HookReturned == HookCalled /\ last.status = "returned"

Enabled(k) == Truthy(Get(params, k))
AllTogglesOff == \A k \in Toggles : ~Enabled(k)
SettingsWellFormed == TimezoneKnown(Get(params, "timezone")) /\ LocaleKnown(Get(params, "locale"))

Kinds(additions) == [i \in DOMAIN additions |-> additions[i].kind]
HasKind(additions, kind) == \E i \in DOMAIN additions : additions[i].kind = kind
TextOfKind(additions, kind) ==
    additions[CHOOSE i \in DOMAIN additions : additions[i].kind = kind].text

\* C1: whenever the hook returns, the second component of its result is the
\* visible_text it was given, whatever the settings and the lookups did.
C1_VisibleTextPassedThrough == HookReturned => last.outVisible = last.visible

C1_Witness ==
    /\ HookReturned
    /\ last.outText # last.text
    /\ last.visible # last.text
    /\ last.outVisible = last.visible

\* C2: with every toggle disabled the hook returns the input text unchanged
\* as the model-facing text and makes no location or weather lookup.
C2_AllTogglesOffTextUnchanged ==
    (HookCalled /\ AllTogglesOff) =>
        /\ last.locCalls = 0 /\ last.weatherCalls = 0 /\ last.httpCalls = 0
        /\ last.additions = <<>>
        /\ SettingsWellFormed => (last.status = "returned" /\ last.outText = last.text)
        /\ last.status = "returned" => last.outText = last.text

C2_Witness == HookReturned /\ AllTogglesOff /\ last.text = "Hello" /\ last.outText = "Hello"

\* the fragments joined from the right, one separator before each but the first
RECURSIVE BarJoined(_)
BarJoined(additions) ==
    IF Len(additions) = 1 THEN additions[1].text
    ELSE BarJoined(SubSeq(additions, 1, Len(additions) - 1)) \o " | "
         \o additions[Len(additions)].text

\* C3: when at least one fragment is produced, the model-facing text is the
\* input text, a newline, "[", the fragments joined with " | " in the order
\* produced, and "]"; "Hello" with only the timezone enabled and timezone UTC
\* gives "Hello\n[Timezone: UTC]".
C3_AnnotationFormat ==
    HookReturned =>
        /\ last.additions # <<>> =>
               last.outText = last.text \o "\n[" \o BarJoined(last.additions) \o "]"
        /\ ( /\ last.text = "Hello"
             /\ \A k \in Toggles : Enabled(k) <=> k = "add_timezone"
             /\ Get(params, "timezone") = PyStr("UTC") )
           => last.outText = "Hello\n[Timezone: UTC]"

C3_Witness ==
    /\ HookReturned
    /\ last.outText = "Hello\n[Timezone: UTC | Location: Paris, FR]"

Rank(kind) ==
    CASE kind = "datetime" -> 1
      [] kind = "timezone" -> 2
      [] kind = "location" -> 3
      [] kind = "weather" -> 4

\* C4: the fragments appear in the order date/time, timezone, location,
\* weather, each kind at most once, whichever toggles are enabled.
C4_FragmentOrder ==
    HookReturned =>
        /\ \A i, j \in DOMAIN last.additions :
               i < j => Rank(last.additions[i].kind) < Rank(last.additions[j].kind)
        /\ HasKind(last.additions, "datetime") <=> (Enabled("add_time") \/ Enabled("add_date"))
        /\ HasKind(last.additions, "timezone") <=> Enabled("add_timezone")
        /\ HasKind(last.additions, "location") <=> Enabled("add_location")
        /\ ( /\ last.text = "Hello"
             /\ Kinds(last.additions) = <<"datetime", "timezone", "location", "weather">>
             /\ Get(params, "timezone") = PyStr("UTC")
             /\ Get(params, "locale") = PyStr("en_US")
             /\ last.additions[4].text = "Weather: Clear, 0.0°C"
             /\ last.additions[3].text = "Location: Paris, FR" )
           => last.outText =
                  "Hello\n[Current date and time: Nov 6, 2026, 1:05:09 PM | Timezone: UTC | "
                  \o "Location: Paris, FR | Weather: Clear, 0.0°C]"

C4_Witness ==
    /\ HookReturned
    /\ Kinds(last.additions) = <<"datetime", "timezone", "location", "weather">>

\* C5: a weather fragment is produced only when add_weather is set and the
\* location lookup returned coordinates; when the lookup returns none, or is
\* not made, there is no weather fragment and get_weather is not called.
C5_WeatherOnlyWithCoordinates ==
    HookReturned =>
        /\ HasKind(last.additions, "weather") <=> last.weatherCalls = 1
        /\ HasKind(last.additions, "weather") =>
               /\ Enabled("add_weather")
               /\ last.locCalls = 1
               /\ last.latlng # PyNone
        /\ (last.locCalls = 0 \/ last.latlng = PyNone) =>
               /\ ~HasKind(last.additions, "weather")
               /\ last.weatherCalls = 0
               /\ last.httpCalls = 0

C5_Witness ==
    /\ HookReturned
    /\ Enabled("add_weather")
    /\ last.locCalls = 1
    /\ ~last.locRaised
    /\ last.latlng = PyNone
    /\ ~HasKind(last.additions, "weather")

InitialDict == IF initialFile.exists THEN JsonLoad(initialFile.text) ELSE <<>>

\* C7: after startup the settings mapping always holds every default key;
\* when setup returns, a key the file lacked has its default value and a key
\* the file held has the file's value.
C7_AllKeysPresentMergeOnLoad ==
    pc # "import" =>
        /\ DefaultKeys \subseteq Keys(params)
        /\ (last.op = "setup") =>
               \A k \in DefaultKeys :
                   Get(params, k) = IF k \in Keys(InitialDict) THEN Get(InitialDict, k)
                                    ELSE Get(default_params, k)

C7_Witness ==
    /\ pc = "returned" /\ last.op = "setup"
    /\ initialFile.exists
    /\ Get(params, "add_time") = PyFalse
    /\ Get(params, "add_date") = PyTrue
    /\ ~("add_date" \in Keys(initialFile.text))

\* C8: when a change handler returns, the settings hold the new value under
\* the handler's own key and the settings file holds the whole mapping.
C8_HandlerWritesAndPersists ==
    (pc = "returned" /\ last.op \in HandlerOps) =>
        /\ last.key = OwnKey(last.op)
        /\ Get(params, OwnKey(last.op)) = last.value
        /\ fileExists
        /\ JsonLoad(fileText) = params

C8_Witness ==
    /\ pc = "returned" /\ last.op = "update_temp_unit"
    /\ Get(params, "temp_unit") = PyStr("Fahrenheit")
    /\ Get(params, "add_time") = PyFalse
    /\ Get(JsonLoad(fileText), "temp_unit") = PyStr("Fahrenheit")
    /\ Get(JsonLoad(fileText), "add_time") = PyFalse

\* C9 as stated: after startup the key set of the settings file is exactly
\* the set of settings keys, whatever the initial file held.
C9_FileHasExactlySettingsKeys ==
    pc # "import" => (fileExists /\ Keys(fileText) = DefaultKeys)

\* C9 amended: after startup the file exists; its key set is the initial
\* file's key set until the first save and the settings keys together with
\* the initial file's keys from then on, so it is exactly the settings keys
\* when the initial file was absent or held exactly the settings keys.
C9_FileKeysAmended ==
    pc # "import" =>
        /\ fileExists
        /\ Keys(fileText) \in {Keys(InitialDict), DefaultKeys \cup Keys(InitialDict)}
        /\ ~initialFile.exists => Keys(fileText) = DefaultKeys
        /\ (last.op \in HandlerOps \cup {"save_settings"}) =>
               Keys(fileText) = DefaultKeys \cup Keys(InitialDict)

C9_Witness ==
    /\ pc = "returned" /\ last.op \in HandlerOps
    /\ Keys(InitialDict) \ DefaultKeys # {}
    /\ Keys(fileText) = DefaultKeys \cup Keys(InitialDict)

\* C10: a load_settings that follows a save_settings (the file holds what
\* save_settings writes for the current mapping) leaves the mapping as it
\* was, defaults included.
C10_SaveLoadRoundTrip ==
    [][(load_settings /\ fileExists /\ fileText = JsonDump(params)) => params' = params]_vars

C10_Witness ==
    /\ pc = "returned" /\ last.op = "load_settings"
    /\ fileText = JsonDump(params)
    /\ Get(params, "add_weather") = PyFalse
    /\ Get(params, "timezone") = PyStr("Europe/Paris")
    /\ Get(params, "add_time") = PyTrue

====
